---- MODULE Spec2Model ----
(***************************************************************************)
(* Model of ShutdownFuture (src/src/lib.rs): a future that waits for the   *)
(* first trigger or task to complete, then awaits a clean-up future, then  *)
(* joins the remaining tasks.                                              *)
(*                                                                         *)
(* One evaluation call of ShutdownFuture::poll is one atomic action.  The  *)
(* owned futures (triggers, tasks, cleanup) are external: each is either   *)
(* pending or ready, becomes ready at a moment the environment chooses     *)
(* and stays ready.  Polling an owned future returns Ready iff it is       *)
(* ready; polling it while pending hands it the waker.                     *)
(***************************************************************************)
EXTENDS Naturals, Integers, Sequences, FiniteSets

\* ---- bounds of the model -------------------------------------------------
MaxTriggers == 2
MaxTasks == 2
MaxCalls == 6

\* ---- ShutdownState (lib.rs:7-11) -----------------------------------------
WaitingForTrigger == "WaitingForTrigger"
RunningAction == "RunningAction"
JoiningTasks == "JoiningTasks"
ShutdownState == {WaitingForTrigger, RunningAction, JoiningTasks}

\* Poll<()> as returned by ShutdownFuture::poll
Pending == "Pending"
Ready == "Ready"

VARIABLES
    triggers,      \* Vec of triggers (ids), lib.rs:19
    tasks,         \* Vec of tasks (ids), lib.rs:20
    state,         \* ShutdownState, lib.rs:22
    trigReady,     \* environment: trigger id -> has it resolved
    taskReady,     \* environment: task id -> has it resolved
    cleanupReady,  \* environment: has the cleanup future resolved
    registered,    \* owned futures that were polled while pending (hold the waker)
    woken,         \* a wake request is outstanding (the host must poll again)
    calls,         \* number of evaluation calls made so far
    call,          \* what the most recent evaluation call did
    hist           \* what has happened since construction

vars == <<triggers, tasks, state, trigReady, taskReady, cleanupReady,
          registered, woken, calls, call, hist>>

\* ---- helpers --------------------------------------------------------------
Ids(n) == 1..n

IdSeq(n) == [i \in 1..n |-> i]

Range(s) == {s[i] : i \in 1..Len(s)}

\* Variant: the loop acts on the last Ready element instead of the first.
FirstReady_Last(v, rdy) ==
    IF \E i \in 1..Len(v) : rdy[v[i]]
    THEN CHOOSE i \in 1..Len(v) : rdy[v[i]] /\ \A j \in (i+1)..Len(v) : ~rdy[v[j]]
    ELSE 0

\* `for x in v.iter_mut() { if x.poll(cx).is_ready() { ...; break; } }`:
\* index of the first element whose poll returns Ready, 0 if the loop runs
\* to the end without finding one.
FirstReady(v, rdy) ==
    IF \E i \in 1..Len(v) : rdy[v[i]]
    THEN CHOOSE i \in 1..Len(v) : rdy[v[i]] /\ \A j \in 1..(i-1) : ~rdy[v[j]]
    ELSE 0

\* The elements such a loop polls, in order: everything up to and including
\* the element it broke at, or the whole vector.
Polled(v, k) == IF k = 0 THEN v ELSE SubSeq(v, 1, k)

\* Variant: removes the last element whatever the index.
RemoveAt_Last(v, i) == SubSeq(v, 1, Len(v)-1)

\* Vec::remove(i) with a 1-based index.
RemoveAt(v, i) == SubSeq(v, 1, i-1) \o SubSeq(v, i+1, Len(v))

\* Vec::pop on a non-empty vector.
Pop(v) == SubSeq(v, 1, Len(v)-1)

\* ---- ShutdownFuture::poll, one arm per phase ------------------------------
\* Each arm is a function of the fields and of the readiness of the owned
\* futures at the time of the call.  It returns the new fields, the polls it
\* made, the number of wake_by_ref calls and the Poll value returned.

\* Variant: enters RunningAction on every call, resolved entry or not.
WaitingForTriggerArm_Eager(trs, tks, tr, tkr) ==
    LET gi == FirstReady(trs, tr)
        ti == FirstReady(tks, tkr)
    IN  [state |-> RunningAction,
         tasks |-> IF ti # 0 THEN RemoveAt(tks, ti) ELSE tks,
         polledTriggers |-> Polled(trs, gi),
         polledTasks |-> Polled(tks, ti),
         polledCleanup |-> 0,
         trigFound |-> gi,
         removedAt |-> ti,
         wakes |-> 1,
         result |-> Pending]

\* Variant: returns right after the trigger loop when a trigger is Ready, so
\* the task loop runs only if no trigger resolved.
WaitingForTriggerArm_TriggerFirst(trs, tks, tr, tkr) ==
    LET gi == FirstReady(trs, tr)
        ti == IF gi # 0 THEN 0 ELSE FirstReady(tks, tkr)
    IN  [state |-> IF gi # 0 \/ ti # 0 THEN RunningAction ELSE WaitingForTrigger,
         tasks |-> IF ti # 0 THEN RemoveAt(tks, ti) ELSE tks,
         polledTriggers |-> Polled(trs, gi),
         polledTasks |-> IF gi # 0 THEN << >> ELSE Polled(tks, ti),
         polledCleanup |-> 0,
         trigFound |-> gi,
         removedAt |-> ti,
         wakes |-> (IF gi # 0 THEN 1 ELSE 0) + (IF ti # 0 THEN 1 ELSE 0),
         result |-> Pending]

\* Variant: a resolved task sends the phase straight to JoiningTasks.
WaitingForTriggerArm_SkipAction(trs, tks, tr, tkr) ==
    LET gi == FirstReady(trs, tr)
        ti == FirstReady(tks, tkr)
    IN  [state |-> IF ti # 0 THEN JoiningTasks
                   ELSE IF gi # 0 THEN RunningAction ELSE WaitingForTrigger,
         tasks |-> IF ti # 0 THEN RemoveAt(tks, ti) ELSE tks,
         polledTriggers |-> Polled(trs, gi),
         polledTasks |-> Polled(tks, ti),
         polledCleanup |-> 0,
         trigFound |-> gi,
         removedAt |-> ti,
         wakes |-> (IF gi # 0 THEN 1 ELSE 0) + (IF ti # 0 THEN 1 ELSE 0),
         result |-> Pending]

\* Variant: a resolved task is removed but the phase is set only by a
\* resolved trigger.
WaitingForTriggerArm_TaskNoTransition(trs, tks, tr, tkr) ==
    LET gi == FirstReady(trs, tr)
        ti == FirstReady(tks, tkr)
    IN  [state |-> IF gi # 0 THEN RunningAction ELSE WaitingForTrigger,
         tasks |-> IF ti # 0 THEN RemoveAt(tks, ti) ELSE tks,
         polledTriggers |-> Polled(trs, gi),
         polledTasks |-> Polled(tks, ti),
         polledCleanup |-> 0,
         trigFound |-> gi,
         removedAt |-> ti,
         wakes |-> (IF gi # 0 THEN 1 ELSE 0) + (IF ti # 0 THEN 1 ELSE 0),
         result |-> Pending]

\* Variant: the task found Ready is left in the vector.
WaitingForTriggerArm_KeepTask(trs, tks, tr, tkr) ==
    LET gi == FirstReady(trs, tr)
        ti == FirstReady(tks, tkr)
    IN  [state |-> IF gi # 0 \/ ti # 0 THEN RunningAction ELSE WaitingForTrigger,
         tasks |-> tks,
         polledTriggers |-> Polled(trs, gi),
         polledTasks |-> Polled(tks, ti),
         polledCleanup |-> 0,
         trigFound |-> gi,
         removedAt |-> 0,
         wakes |-> (IF gi # 0 THEN 1 ELSE 0) + (IF ti # 0 THEN 1 ELSE 0),
         result |-> Pending]

\* Variant: the call returns Pending at the first trigger that is pending,
\* without polling the rest.
WaitingForTriggerArm_StopAtPending(trs, tks, tr, tkr) ==
    IF trs # << >> /\ ~tr[trs[1]]
    THEN [state |-> WaitingForTrigger,
          tasks |-> tks,
          polledTriggers |-> <<trs[1]>>,
          polledTasks |-> << >>,
          polledCleanup |-> 0,
          trigFound |-> 0,
          removedAt |-> 0,
          wakes |-> 0,
          result |-> Pending]
    ELSE LET gi == FirstReady(trs, tr)
             ti == FirstReady(tks, tkr)
         IN  [state |-> IF gi # 0 \/ ti # 0 THEN RunningAction ELSE WaitingForTrigger,
              tasks |-> IF ti # 0 THEN RemoveAt(tks, ti) ELSE tks,
              polledTriggers |-> Polled(trs, gi),
              polledTasks |-> Polled(tks, ti),
              polledCleanup |-> 0,
              trigFound |-> gi,
              removedAt |-> ti,
              wakes |-> (IF gi # 0 THEN 1 ELSE 0) + (IF ti # 0 THEN 1 ELSE 0),
              result |-> Pending]

\* lib.rs:49-69
WaitingForTriggerArm(trs, tks, tr, tkr) ==
    LET gi == FirstReady(trs, tr)
        ti == FirstReady(tks, tkr)
    IN  [state |-> IF gi # 0 \/ ti # 0 THEN RunningAction ELSE WaitingForTrigger,
         tasks |-> IF ti # 0 THEN RemoveAt(tks, ti) ELSE tks,
         polledTriggers |-> Polled(trs, gi),
         polledTasks |-> Polled(tks, ti),
         polledCleanup |-> 0,
         trigFound |-> gi,
         removedAt |-> ti,
         wakes |-> (IF gi # 0 THEN 1 ELSE 0) + (IF ti # 0 THEN 1 ELSE 0),
         result |-> Pending]

\* Variant: forgets wake_by_ref when the cleanup future is Ready.
RunningActionArm_NoWake(tks, cr) ==
    [state |-> IF cr THEN JoiningTasks ELSE RunningAction,
     tasks |-> tks,
     polledTriggers |-> << >>,
     polledTasks |-> << >>,
     polledCleanup |-> 1,
     trigFound |-> 0,
     removedAt |-> 0,
     wakes |-> 0,
     result |-> Pending]

\* Variant: forgets to advance the phase when the cleanup future is Ready.
RunningActionArm_Stay(tks, cr) ==
    [state |-> RunningAction,
     tasks |-> tks,
     polledTriggers |-> << >>,
     polledTasks |-> << >>,
     polledCleanup |-> 1,
     trigFound |-> 0,
     removedAt |-> 0,
     wakes |-> IF cr THEN 1 ELSE 0,
     result |-> Pending]

\* Variant: returns Ready in the call in which cleanup resolves when no task
\* is left.
RunningActionArm_Collapsed(tks, cr) ==
    [state |-> IF cr THEN JoiningTasks ELSE RunningAction,
     tasks |-> tks,
     polledTriggers |-> << >>,
     polledTasks |-> << >>,
     polledCleanup |-> 1,
     trigFound |-> 0,
     removedAt |-> 0,
     wakes |-> IF cr /\ tks # << >> THEN 1 ELSE 0,
     result |-> IF cr /\ tks = << >> THEN Ready ELSE Pending]

\* lib.rs:70-76
RunningActionArm(tks, cr) ==
    [state |-> IF cr THEN JoiningTasks ELSE RunningAction,
     tasks |-> tks,
     polledTriggers |-> << >>,
     polledTasks |-> << >>,
     polledCleanup |-> 1,
     trigFound |-> 0,
     removedAt |-> 0,
     wakes |-> IF cr THEN 1 ELSE 0,
     result |-> Pending]

\* Variant: returns Ready as soon as at most one task is left.
JoiningTasksArm_EarlyReady(tks, tkr) ==
    IF Len(tks) <= 1
    THEN [state |-> JoiningTasks,
          tasks |-> tks,
          polledTriggers |-> << >>,
          polledTasks |-> << >>,
          polledCleanup |-> 0,
          trigFound |-> 0,
          removedAt |-> 0,
          wakes |-> 0,
          result |-> Ready]
    ELSE LET lastReady == tkr[tks[Len(tks)]]
         IN  [state |-> JoiningTasks,
              tasks |-> IF lastReady THEN Pop(tks) ELSE tks,
              polledTriggers |-> << >>,
              polledTasks |-> <<tks[Len(tks)]>>,
              polledCleanup |-> 0,
              trigFound |-> 0,
              removedAt |-> IF lastReady THEN Len(tks) ELSE 0,
              wakes |-> IF lastReady THEN 1 ELSE 0,
              result |-> Pending]

\* Variant: pops the last task whether or not its poll returned Ready.
JoiningTasksArm_PopAlways(tks, tkr) ==
    IF tks = << >>
    THEN [state |-> JoiningTasks,
          tasks |-> tks,
          polledTriggers |-> << >>,
          polledTasks |-> << >>,
          polledCleanup |-> 0,
          trigFound |-> 0,
          removedAt |-> 0,
          wakes |-> 0,
          result |-> Ready]
    ELSE [state |-> JoiningTasks,
          tasks |-> Pop(tks),
          polledTriggers |-> << >>,
          polledTasks |-> <<tks[Len(tks)]>>,
          polledCleanup |-> 0,
          trigFound |-> 0,
          removedAt |-> Len(tks),
          wakes |-> 1,
          result |-> Pending]

\* Variant: the empty-vector arm also calls wake_by_ref before returning Ready.
JoiningTasksArm_WakeOnReady(tks, tkr) ==
    IF tks = << >>
    THEN [state |-> JoiningTasks,
          tasks |-> tks,
          polledTriggers |-> << >>,
          polledTasks |-> << >>,
          polledCleanup |-> 0,
          trigFound |-> 0,
          removedAt |-> 0,
          wakes |-> 1,
          result |-> Ready]
    ELSE LET lastReady == tkr[tks[Len(tks)]]
         IN  [state |-> JoiningTasks,
              tasks |-> IF lastReady THEN Pop(tks) ELSE tks,
              polledTriggers |-> << >>,
              polledTasks |-> <<tks[Len(tks)]>>,
              polledCleanup |-> 0,
              trigFound |-> 0,
              removedAt |-> IF lastReady THEN Len(tks) ELSE 0,
              wakes |-> IF lastReady THEN 1 ELSE 0,
              result |-> Pending]

\* Variant: JoiningTasks scans the tasks in order and removes the first one
\* that is Ready, as WaitingForTrigger does.
JoiningTasksArm_AnyReady(tks, tkr) ==
    IF tks = << >>
    THEN [state |-> JoiningTasks,
          tasks |-> tks,
          polledTriggers |-> << >>,
          polledTasks |-> << >>,
          polledCleanup |-> 0,
          trigFound |-> 0,
          removedAt |-> 0,
          wakes |-> 0,
          result |-> Ready]
    ELSE LET ti == FirstReady(tks, tkr)
         IN  [state |-> JoiningTasks,
              tasks |-> IF ti # 0 THEN RemoveAt(tks, ti) ELSE tks,
              polledTriggers |-> << >>,
              polledTasks |-> Polled(tks, ti),
              polledCleanup |-> 0,
              trigFound |-> 0,
              removedAt |-> ti,
              wakes |-> IF ti # 0 THEN 1 ELSE 0,
              result |-> Pending]

\* lib.rs:77-86
JoiningTasksArm(tks, tkr) ==
    IF tks = << >>
    THEN [state |-> JoiningTasks,
          tasks |-> tks,
          polledTriggers |-> << >>,
          polledTasks |-> << >>,
          polledCleanup |-> 0,
          trigFound |-> 0,
          removedAt |-> 0,
          wakes |-> 0,
          result |-> Ready]
    ELSE LET lastReady == tkr[tks[Len(tks)]]
         IN  [state |-> JoiningTasks,
              tasks |-> IF lastReady THEN Pop(tks) ELSE tks,
              polledTriggers |-> << >>,
              polledTasks |-> <<tks[Len(tks)]>>,
              polledCleanup |-> 0,
              trigFound |-> 0,
              removedAt |-> IF lastReady THEN Len(tks) ELSE 0,
              wakes |-> IF lastReady THEN 1 ELSE 0,
              result |-> Pending]

\* Variant: the trigger loop also runs in RunningAction.
PollStep_TriggersAlways(st, trs, tks, tr, tkr, cr) ==
    CASE st = WaitingForTrigger -> WaitingForTriggerArm(trs, tks, tr, tkr)
      [] st = RunningAction     ->
            [RunningActionArm(tks, cr) EXCEPT
                !.polledTriggers = Polled(trs, FirstReady(trs, tr))]
      [] st = JoiningTasks      -> JoiningTasksArm(tks, tkr)

\* lib.rs:47-88, the `match self.state`
PollStep(st, trs, tks, tr, tkr, cr) ==
    CASE st = WaitingForTrigger -> WaitingForTriggerArm(trs, tks, tr, tkr)
      [] st = RunningAction     -> RunningActionArm(tks, cr)
      [] st = JoiningTasks      -> JoiningTasksArm(tks, tkr)

\* ---- state after ShutdownFuture::new (lib.rs:28-39) -----------------------
NoCall ==
    [start |-> "None", tasksBefore |-> << >>, polledTriggers |-> << >>,
     polledTasks |-> << >>, polledCleanup |-> 0, trigFound |-> 0,
     removedAt |-> 0, removed |-> 0, wakes |-> 0, result |-> "None",
     readyTriggers |-> {}, readyTasks |-> {}]

NoHist(nt) ==
    [nTasks |-> nt,                    \* N, the number of tasks at construction
     removals |-> 0,                   \* task removals so far
     cleanupPolls |-> 0,               \* polls of the cleanup future so far
     repolls |-> 0,                    \* polls of an owned future after it returned Ready
     tTrigger |-> 0,                   \* call in which a trigger was seen Ready
     tObserved |-> [i \in Ids(nt) |-> 0],  \* call in which each task was seen Ready
     tRemoved |-> [i \in Ids(nt) |-> 0],   \* call in which each task was removed
     tCleanupFirst |-> 0,              \* call of the first poll of cleanup
     tCleanup |-> 0,                   \* call in which cleanup was seen Ready
     tDone |-> 0,                      \* first call that returned Ready
     seenReady |-> [triggers |-> {}, tasks |-> {}, cleanup |-> FALSE]]

Init ==
    \E ng \in 0..MaxTriggers, nt \in 0..MaxTasks :
        /\ triggers = IdSeq(ng)
        /\ tasks = IdSeq(nt)
        /\ state = WaitingForTrigger
        /\ trigReady = [i \in Ids(ng) |-> FALSE]
        /\ taskReady = [i \in Ids(nt) |-> FALSE]
        /\ cleanupReady = FALSE
        /\ registered = [triggers |-> {}, tasks |-> {}, cleanup |-> FALSE]
        /\ woken = TRUE
        /\ calls = 0
        /\ call = NoCall
        /\ hist = NoHist(nt)

\* ---- the environment: owned futures resolve -------------------------------
ResolveTrigger ==
    \E i \in DOMAIN trigReady :
        /\ ~trigReady[i]
        /\ trigReady' = [trigReady EXCEPT ![i] = TRUE]
        /\ woken' = (woken \/ i \in registered.triggers)
        /\ UNCHANGED <<triggers, tasks, state, taskReady, cleanupReady,
                       registered, calls, call, hist>>

ResolveTask ==
    \E i \in DOMAIN taskReady :
        /\ ~taskReady[i]
        /\ taskReady' = [taskReady EXCEPT ![i] = TRUE]
        /\ woken' = (woken \/ i \in registered.tasks)
        /\ UNCHANGED <<triggers, tasks, state, trigReady, cleanupReady,
                       registered, calls, call, hist>>

ResolveCleanup ==
    /\ ~cleanupReady
    /\ cleanupReady' = TRUE
    /\ woken' = (woken \/ registered.cleanup)
    /\ UNCHANGED <<triggers, tasks, state, trigReady, taskReady,
                   registered, calls, call, hist>>

\* ---- one evaluation call --------------------------------------------------
ReadyIn(s, rdy) == {x \in Range(s) : rdy[x]}

Evaluate ==
    LET r == PollStep(state, triggers, tasks, trigReady, taskReady, cleanupReady)
        n == calls + 1
        gPolled == Range(r.polledTriggers)
        tPolled == Range(r.polledTasks)
        gReady == {x \in gPolled : trigReady[x]}
        tReady == {x \in tPolled : taskReady[x]}
        cPolled == r.polledCleanup > 0
        again == Cardinality(gPolled \cap hist.seenReady.triggers)
                 + Cardinality(tPolled \cap hist.seenReady.tasks)
                 + (IF cPolled /\ hist.seenReady.cleanup THEN 1 ELSE 0)
    IN  /\ state' = r.state
        /\ tasks' = r.tasks
        /\ woken' = (r.wakes > 0)
        /\ registered' =
              [triggers |-> {x \in registered.triggers \cup gPolled : ~trigReady[x]},
               tasks |-> {x \in registered.tasks \cup tPolled : ~taskReady[x]},
               cleanup |-> (registered.cleanup \/ cPolled) /\ ~cleanupReady]
        /\ calls' = n
        /\ call' = [start |-> state,
                    tasksBefore |-> tasks,
                    polledTriggers |-> r.polledTriggers,
                    polledTasks |-> r.polledTasks,
                    polledCleanup |-> r.polledCleanup,
                    trigFound |-> r.trigFound,
                    removedAt |-> r.removedAt,
                    removed |-> IF r.removedAt # 0 THEN tasks[r.removedAt] ELSE 0,
                    wakes |-> r.wakes,
                    result |-> r.result,
                    readyTriggers |-> ReadyIn(triggers, trigReady),
                    readyTasks |-> ReadyIn(tasks, taskReady)]
        /\ hist' = [hist EXCEPT
                    !.removals = @ + (Len(tasks) - Len(r.tasks)),
                    !.cleanupPolls = @ + r.polledCleanup,
                    !.repolls = @ + again,
                    !.tTrigger = IF @ = 0 /\ gReady # {} THEN n ELSE @,
                    !.tObserved = [i \in DOMAIN @ |->
                                     IF @[i] = 0 /\ i \in tReady THEN n ELSE @[i]],
                    !.tRemoved = [i \in DOMAIN @ |->
                                     IF i \in Range(tasks) \ Range(r.tasks) THEN n ELSE @[i]],
                    !.tCleanupFirst = IF @ = 0 /\ cPolled THEN n ELSE @,
                    !.tCleanup = IF @ = 0 /\ cPolled /\ cleanupReady THEN n ELSE @,
                    !.tDone = IF @ = 0 /\ r.result = Ready THEN n ELSE @,
                    !.seenReady = [triggers |-> @.triggers \cup gReady,
                                   tasks |-> @.tasks \cup tReady,
                                   cleanup |-> @.cleanup \/ (cPolled /\ cleanupReady)]]
        /\ UNCHANGED <<triggers, trigReady, taskReady, cleanupReady>>

\* The host may poll at any time (a poll without a wake is allowed).
Poll == calls < MaxCalls /\ Evaluate

Next == Poll \/ ResolveTrigger \/ ResolveTask \/ ResolveCleanup

Spec == Init /\ [][Next]_vars

\* ---- the cooperative host of the scheduling model -------------------------
\* The host polls once when the future is first awaited and then again after
\* every wake request; every task and the cleanup future resolve eventually.
HostPoll == woken /\ Evaluate

LiveNext == HostPoll \/ ResolveTrigger \/ ResolveTask \/ ResolveCleanup

LiveSpec ==
    /\ Init
    /\ [][LiveNext]_vars
    /\ WF_vars(HostPoll)
    /\ WF_vars(ResolveTask)
    /\ WF_vars(ResolveCleanup)

TypeOK ==
    /\ state \in ShutdownState
    /\ calls \in Nat
    /\ woken \in BOOLEAN
    /\ call.result \in {"None", Pending, Ready}

\* ---- properties -----------------------------------------------------------
Min(S) == CHOOSE x \in S : \A y \in S : x <= y

\* Calls in which some trigger or task was seen Ready.
ObservedCalls == ({hist.tTrigger} \cup {hist.tObserved[i] : i \in DOMAIN hist.tObserved}) \ {0}

FirstObserved == IF ObservedCalls = {} THEN 0 ELSE Min(ObservedCalls)

\* C1: Ready is returned only after, in this order, (a) a trigger or task was
\* seen resolved, (b) the cleanup future was polled to resolution, (c) every
\* task still in the vector after that was seen resolved; and the cleanup
\* future is never polled before a trigger or task was seen resolved.
C1_ShutdownOrder ==
    /\ hist.tCleanupFirst # 0 =>
          /\ FirstObserved # 0
          /\ FirstObserved < hist.tCleanupFirst
    /\ hist.tDone # 0 =>
          /\ FirstObserved # 0
          /\ FirstObserved < hist.tCleanup
          /\ hist.tCleanupFirst <= hist.tCleanup
          /\ hist.tCleanup < hist.tDone
          /\ \A i \in DOMAIN hist.tRemoved :
                /\ hist.tRemoved[i] # 0
                /\ hist.tRemoved[i] < hist.tDone
                /\ hist.tObserved[i] # 0
                /\ hist.tRemoved[i] > hist.tCleanup =>
                      /\ hist.tObserved[i] > hist.tCleanup
                      /\ hist.tObserved[i] < hist.tDone

C1_Witness ==
    /\ hist.tDone # 0
    /\ hist.nTasks >= 2
    /\ \E i \in DOMAIN hist.tObserved : hist.tObserved[i] > hist.tCleanup
    /\ hist.cleanupPolls >= 2

\* C2: whenever a call returns Ready, the task vector is empty, exactly N
\* removals have occurred (N tasks at construction) and the cleanup future
\* has resolved.
C2_DoneMeansDrained ==
    call.result = Ready =>
        /\ tasks = << >>
        /\ hist.removals = hist.nTasks
        /\ hist.seenReady.cleanup

C2_Witness == call.result = Ready /\ hist.nTasks >= 2

\* C3: under the cooperative host (a poll after every wake request, tasks and
\* cleanup eventually resolve), if some trigger or task eventually resolves
\* then a call eventually returns Ready.
SomeTriggerOrTaskResolved ==
    \/ \E i \in DOMAIN trigReady : trigReady[i]
    \/ \E i \in DOMAIN taskReady : taskReady[i]

C3_EventuallyDone == (<>SomeTriggerOrTaskResolved) => <>(call.result = Ready)

C3_Witness ==
    /\ call.result = Ready
    /\ hist.nTasks >= 2
    /\ Len(triggers) >= 1

C5_PhaseForward ==
    /\ state = WaitingForTrigger
    /\ [][/\ state \in ShutdownState
          /\ state' \in ShutdownState
          /\ state' # state =>
                \/ state = WaitingForTrigger /\ state' = RunningAction
                \/ /\ state = RunningAction /\ state' = JoiningTasks
                   /\ call'.start = RunningAction]_vars

C5_Witness == state = JoiningTasks /\ call.start = JoiningTasks

\* C6: the cleanup future is polled only by calls that start in
\* RunningAction, at most once per call; the call in which it resolves sets
\* the phase to JoiningTasks; it is never polled again after it resolved.
C6_CleanupPolledOnce ==
    /\ call.polledCleanup <= 1
    /\ call.polledCleanup > 0 => call.start = RunningAction
    /\ (hist.tCleanup # 0 /\ hist.tCleanup = calls) =>
          /\ call.polledCleanup = 1
          /\ state = JoiningTasks
    /\ (hist.tCleanup # 0 /\ hist.tCleanup < calls) =>
          /\ call.polledCleanup = 0
          /\ hist.cleanupPolls = hist.tCleanup - hist.tCleanupFirst + 1

C6_Witness ==
    /\ hist.tCleanup # 0
    /\ hist.tCleanup + 2 <= calls
    /\ hist.cleanupPolls >= 2

\* C7: a call that starts in RunningAction or JoiningTasks polls no trigger,
\* also when a trigger has resolved since the phase left WaitingForTrigger.
C7_NoTriggerAfterWaiting ==
    call.start \in {RunningAction, JoiningTasks} => call.polledTriggers = << >>

C7_Witness ==
    /\ call.start \in {RunningAction, JoiningTasks}
    /\ \E i \in DOMAIN trigReady :
          /\ i \in call.readyTriggers
          /\ i \notin hist.seenReady.triggers

\* C8 as stated: every removal, in whichever phase, removes the element that
\* is last in the task vector at that moment.
C8_RemovalsFromTail ==
    Len(tasks) < Len(call.tasksBefore) =>
        tasks = SubSeq(call.tasksBefore, 1, Len(call.tasksBefore) - 1)

\* C8 amended: a call removes at most one task; a removal in JoiningTasks
\* removes the last element of the vector; the removal in WaitingForTrigger
\* removes the first task in vector order that is resolved, wherever it is,
\* and keeps the others in order.
C8_RemovalPosition ==
    /\ calls >= 1 => Len(call.tasksBefore) - Len(tasks) \in {0, 1}
    /\ Len(tasks) < Len(call.tasksBefore) =>
          /\ call.start = JoiningTasks =>
                tasks = SubSeq(call.tasksBefore, 1, Len(call.tasksBefore) - 1)
          /\ call.start = WaitingForTrigger =>
                \E k \in 1..Len(call.tasksBefore) :
                    /\ call.tasksBefore[k] \in call.readyTasks
                    /\ \A j \in 1..(k-1) : call.tasksBefore[j] \notin call.readyTasks
                    /\ tasks = SubSeq(call.tasksBefore, 1, k-1)
                                 \o SubSeq(call.tasksBefore, k+1, Len(call.tasksBefore))
          /\ call.start # RunningAction

C8_Witness ==
    /\ call.start = WaitingForTrigger
    /\ Len(call.tasksBefore) >= 2
    /\ Len(tasks) < Len(call.tasksBefore)
    /\ tasks # SubSeq(call.tasksBefore, 1, Len(call.tasksBefore) - 1)

\* C9: constructed with no trigger and no task, the phase stays
\* WaitingForTrigger, the cleanup future is never polled and no call returns
\* Ready, whatever the number of calls.
C9_EmptyNeverStarts ==
    (Len(triggers) = 0 /\ hist.nTasks = 0) =>
        /\ state = WaitingForTrigger
        /\ hist.cleanupPolls = 0
        /\ hist.tDone = 0
        /\ call.result # Ready

C9_Witness ==
    /\ Len(triggers) = 0
    /\ hist.nTasks = 0
    /\ calls >= 3
    /\ cleanupReady

\* C10: zero triggers, one task whose first poll returns Ready, a cleanup
\* future whose first poll returns Ready: call 1 removes the task and enters
\* RunningAction, call 2 resolves cleanup and enters JoiningTasks, call 3
\* returns Ready.
TaskReadyAtCallOne ==
    /\ Len(triggers) = 0
    /\ hist.nTasks = 1
    /\ calls >= 1
    /\ hist.tObserved[1] = 1

CleanupReadyAtFirstPoll ==
    /\ hist.tCleanupFirst # 0
    /\ hist.tCleanup = hist.tCleanupFirst

C10_ThreeCalls ==
    TaskReadyAtCallOne =>
        /\ hist.tRemoved[1] = 1
        /\ calls = 1 => (state = RunningAction /\ tasks = << >> /\ call.result = Pending)
        /\ calls >= 2 => hist.tCleanupFirst = 2
        /\ CleanupReadyAtFirstPoll =>
              /\ hist.tCleanup = 2
              /\ calls = 2 => (state = JoiningTasks /\ call.result = Pending)
              /\ calls >= 3 => hist.tDone = 3
              /\ calls = 3 => call.result = Ready

C10_Witness ==
    /\ TaskReadyAtCallOne
    /\ CleanupReadyAtFirstPoll
    /\ calls = 3
    /\ call.result = Ready

\* C11: triggers = [], tasks = [T1, T2], T1 Ready at its first poll, cleanup
\* Ready at its first poll, T2 still pending at call 3: call 1 removes T1 and
\* enters RunningAction with tasks = [T2]; call 2 resolves cleanup and enters
\* JoiningTasks; call 3 polls T2 and returns Pending with tasks = [T2]; a
\* later call that finds T2 resolved removes it, leaving the vector empty,
\* and Ready is returned only after that removal.
TwoTasksFirstReady ==
    /\ Len(triggers) = 0
    /\ hist.nTasks = 2
    /\ calls >= 1
    /\ hist.tObserved[1] = 1

SecondPendingAtCallThree ==
    /\ calls >= 3
    /\ hist.tObserved[2] # 3
    /\ calls = 3 => 2 \notin call.readyTasks

C11_TwoTaskTrace ==
    TwoTasksFirstReady =>
        /\ hist.tRemoved[1] = 1
        /\ calls = 1 => (state = RunningAction /\ tasks = <<2>> /\ call.result = Pending)
        /\ CleanupReadyAtFirstPoll =>
              /\ hist.tCleanup = 2
              /\ calls = 2 => (state = JoiningTasks /\ tasks = <<2>> /\ call.result = Pending)
              /\ SecondPendingAtCallThree =>
                    /\ calls = 3 =>
                          /\ call.polledTasks = <<2>>
                          /\ call.result = Pending
                          /\ tasks = <<2>>
                    /\ hist.tRemoved[2] = 0 => (tasks = <<2>> /\ hist.tDone = 0)
                    /\ (calls > 3 /\ 2 \in call.readyTasks) =>
                          /\ hist.tRemoved[2] = calls
                          /\ tasks = << >>
                          /\ call.result = Pending
                    /\ hist.tDone # 0 =>
                          /\ hist.tRemoved[2] > 3
                          /\ hist.tRemoved[2] < hist.tDone

C11_Witness ==
    /\ TwoTasksFirstReady
    /\ CleanupReadyAtFirstPoll
    /\ SecondPendingAtCallThree
    /\ hist.tRemoved[2] >= 5
    /\ call.result = Ready

\* C12: triggers = [G1 Ready at its first poll], tasks = [T1 that never
\* resolves], cleanup Ready at its first poll: the phase reaches
\* JoiningTasks at call 2, and every later call polls T1, returns Pending
\* and leaves tasks = [T1]; Ready is never returned.
TriggerReadyTaskNever ==
    /\ Len(triggers) = 1
    /\ hist.nTasks = 1
    /\ calls >= 1
    /\ hist.tTrigger = 1
    /\ ~taskReady[1]

C12_StallsOnPendingTask ==
    TriggerReadyTaskNever =>
        /\ tasks = <<1>>
        /\ hist.tDone = 0
        /\ call.result = Pending
        /\ calls = 1 => state = RunningAction
        /\ CleanupReadyAtFirstPoll =>
              /\ hist.tCleanup = 2
              /\ state = JoiningTasks
              /\ calls >= 3 =>
                    /\ call.start = JoiningTasks
                    /\ call.polledTasks = <<1>>
                    /\ call.removedAt = 0
                    /\ call.wakes = 0

C12_Witness ==
    /\ TriggerReadyTaskNever
    /\ CleanupReadyAtFirstPoll
    /\ calls = MaxCalls
    /\ call.start = JoiningTasks

\* C13: once a call has returned Ready, every further call returns Ready,
\* polls no owned future, requests no wake and leaves phase, triggers and
\* tasks unchanged.
C13_DoneIsIdempotent ==
    [][(call.result = Ready /\ calls' # calls) =>
          /\ call'.result = Ready
          /\ call'.polledTriggers = << >>
          /\ call'.polledTasks = << >>
          /\ call'.polledCleanup = 0
          /\ call'.wakes = 0
          /\ ~woken'
          /\ state' = state
          /\ triggers' = triggers
          /\ tasks' = tasks
          /\ hist'.cleanupPolls = hist.cleanupPolls]_vars

C13_Witness ==
    /\ hist.tDone # 0
    /\ calls >= hist.tDone + 2
    /\ call.result = Ready

\* C14: every call that starts in WaitingForTrigger or RunningAction returns
\* Pending, also the call in which cleanup resolves; Ready is returned only
\* by a call that starts in JoiningTasks with an empty task vector; so the
\* call that removes a task returns Pending and no call before the third
\* returns Ready.
C14_ReadyOnlyFromEmptyJoin ==
    /\ call.start \in {WaitingForTrigger, RunningAction} => call.result = Pending
    /\ (hist.tCleanup # 0 /\ hist.tCleanup = calls) => call.result = Pending
    /\ call.result = Ready =>
          /\ call.start = JoiningTasks
          /\ call.tasksBefore = << >>
    /\ (calls >= 1 /\ tasks # call.tasksBefore) => call.result = Pending
    /\ hist.tDone # 0 => hist.tDone >= 3
    /\ calls < 3 => call.result # Ready

C14_Witness ==
    /\ hist.tDone # 0
    /\ call.result = Ready
    /\ \E i \in DOMAIN hist.tRemoved :
          /\ hist.tRemoved[i] = hist.tDone - 1
          /\ hist.tRemoved[i] > hist.tCleanup

\* C15: after a call that started in WaitingForTrigger, the phase is
\* RunningAction if some trigger or some task was resolved at that call
\* (whatever the readiness of the tasks when it was a trigger), and otherwise
\* it is still WaitingForTrigger with the task vector unchanged.
C15_WaitingOutcome ==
    call.start = WaitingForTrigger =>
        /\ (call.readyTriggers # {} \/ call.readyTasks # {}) =>
              /\ state = RunningAction
              /\ call.trigFound # 0 \/ call.removedAt # 0
        /\ (call.readyTriggers = {} /\ call.readyTasks = {}) =>
              /\ state = WaitingForTrigger
              /\ tasks = call.tasksBefore
              /\ call.trigFound = 0
              /\ call.removedAt = 0

C15_Witness ==
    /\ call.start = WaitingForTrigger
    /\ calls >= 2
    /\ call.readyTriggers = {}
    /\ Cardinality(call.readyTasks) = 1
    /\ Len(call.tasksBefore) = 2
    /\ state = RunningAction

\* C16: frame of every call: the trigger vector never changes; the task
\* vector never grows and in one call is unchanged or loses exactly one
\* element, a task polled Ready in that call, the others keeping their
\* order; in WaitingForTrigger the removed task is the first resolved task
\* in vector order.
C16_Frame ==
    [][/\ triggers' = triggers
       /\ Len(tasks') <= Len(tasks)
       /\ tasks' # tasks =>
             \E k \in 1..Len(tasks) :
                 /\ tasks' = SubSeq(tasks, 1, k-1) \o SubSeq(tasks, k+1, Len(tasks))
                 /\ taskReady[tasks[k]]
                 /\ tasks[k] \in Range(call'.polledTasks)
                 /\ state = WaitingForTrigger =>
                       \A j \in 1..(k-1) : ~taskReady[tasks[j]]]_vars

C16_Witness ==
    /\ call.start = WaitingForTrigger
    /\ call.tasksBefore = <<1, 2>>
    /\ call.readyTasks = {1, 2}
    /\ tasks = <<2>>
    /\ hist.seenReady.triggers # {}
    /\ triggers = <<1, 2>>

\* C17: a call in JoiningTasks polls only the last task of the vector; an
\* earlier task is neither polled nor removed while a later one is still in
\* the vector, even if it has resolved; so the tasks present on entering
\* JoiningTasks are removed in reverse vector order whatever the order in
\* which they resolve.
InJoin(i) == hist.tCleanup # 0 /\ (hist.tRemoved[i] = 0 \/ hist.tRemoved[i] > hist.tCleanup)

C17_TailOnlyDrain ==
    /\ (call.start = JoiningTasks /\ call.tasksBefore # << >>) =>
          /\ call.polledTasks = <<call.tasksBefore[Len(call.tasksBefore)]>>
          /\ \A k \in 1..(Len(call.tasksBefore) - 1) : tasks[k] = call.tasksBefore[k]
    /\ \A i, j \in DOMAIN hist.tRemoved :
          (i < j /\ InJoin(i) /\ InJoin(j) /\ hist.tRemoved[i] # 0) =>
              /\ hist.tRemoved[j] # 0
              /\ hist.tRemoved[j] < hist.tRemoved[i]
              /\ hist.tObserved[j] < hist.tObserved[i]

C17_Witness ==
    /\ call.start = JoiningTasks
    /\ call.tasksBefore = <<1, 2>>
    /\ call.readyTasks = {1}
    /\ tasks = <<1, 2>>
    /\ call.result = Pending

\* C18: a call requests a wake if and only if it changed the phase or
\* removed a task; a JoiningTasks call whose last task is pending, a
\* RunningAction call whose cleanup is pending and a WaitingForTrigger call
\* that finds nothing resolved return Pending without a wake and without
\* changing phase or tasks.
NothingResolvedAtCall ==
    \/ /\ call.start = WaitingForTrigger
       /\ call.readyTriggers = {}
       /\ call.readyTasks = {}
    \/ /\ call.start = RunningAction
       /\ hist.tCleanup # calls
    \/ /\ call.start = JoiningTasks
       /\ call.tasksBefore # << >>
       /\ call.tasksBefore[Len(call.tasksBefore)] \notin call.readyTasks

C18_WakeIffProgress ==
    calls >= 1 =>
        /\ call.wakes > 0 <=> (state # call.start \/ tasks # call.tasksBefore)
        /\ NothingResolvedAtCall =>
              /\ call.result = Pending
              /\ call.wakes = 0
              /\ state = call.start
              /\ tasks = call.tasksBefore

C18_Witness ==
    /\ call.start = RunningAction
    /\ state = RunningAction
    /\ call.polledCleanup = 1
    /\ call.wakes = 0
    /\ hist.cleanupPolls >= 2

\* C19: no owned future is polled again after it returned Ready: a trigger,
\* a task or the cleanup future that was seen Ready is polled by no later
\* call, and a task seen Ready is no longer in the vector.
C19_NoPollAfterReady ==
    /\ hist.repolls = 0
    /\ hist.seenReady.tasks \cap Range(tasks) = {}
    /\ hist.seenReady.triggers # {} => state # WaitingForTrigger
    /\ hist.seenReady.cleanup => state = JoiningTasks
    /\ (hist.tTrigger # 0 /\ hist.tTrigger < calls) => call.polledTriggers = << >>
    /\ \A i \in DOMAIN hist.tObserved :
          (hist.tObserved[i] # 0 /\ hist.tObserved[i] < calls) =>
              i \notin Range(call.polledTasks)

C19_Witness ==
    /\ hist.seenReady.triggers # {}
    /\ Cardinality(hist.seenReady.tasks) = 2
    /\ hist.seenReady.cleanup
    /\ hist.tDone # 0
    /\ calls > hist.tDone

\* C20: no lost wake-up: a call that returns Pending without requesting a
\* wake has polled, and so handed the waker to, every owned future whose
\* resolution enables progress in the current phase: all triggers and all
\* tasks in WaitingForTrigger, the cleanup future in RunningAction, the last
\* task in JoiningTasks.
C20_NoLostWakeup ==
    (calls >= 1 /\ call.result = Pending /\ call.wakes = 0) =>
        /\ state = call.start
        /\ state = WaitingForTrigger =>
              /\ call.polledTriggers = triggers
              /\ call.polledTasks = tasks
              /\ Range(triggers) \subseteq registered.triggers
              /\ Range(tasks) \subseteq registered.tasks
        /\ state = RunningAction =>
              /\ call.polledCleanup = 1
              /\ registered.cleanup
        /\ state = JoiningTasks =>
              /\ tasks # << >>
              /\ call.polledTasks = <<tasks[Len(tasks)]>>
              /\ tasks[Len(tasks)] \in registered.tasks

C20_Witness ==
    /\ calls >= 1
    /\ call.result = Pending
    /\ call.wakes = 0
    /\ state = WaitingForTrigger
    /\ Len(triggers) = 2
    /\ Len(tasks) = 2
    /\ trigReady[2]
    /\ woken
====
